---- MODULE Spec2Model ----
(***************************************************************************)
(* Request-boundary logic of the chat widget backend                       *)
(* (src/backend/server.js, lines 1-239): the CORS origin gate, POST /chat  *)
(* with the coercion of the model's text into {reply, chips}, POST /lead.  *)
(*                                                                         *)
(* A JavaScript string is a sequence of atoms.  An atom is a TLA+ string   *)
(* standing for one character (" ", "{", "7") or for a run of characters   *)
(* that the code never splits ("http://", "localhost", "reply").  String   *)
(* equality is sequence equality; trimming, splitting, regular-expression  *)
(* matching and parsing are computed on the sequence.                      *)
(***************************************************************************)
EXTENDS Naturals, Sequences, FiniteSets

VARIABLES
    ALLOWED_ORIGINS,   \* server.js:18-26, the raw configured list
    ALLOWED_HOSTS,     \* server.js:48, the normalized host set
    LEAD_WEBHOOK_URL,  \* server.js:56, "" when unset
    reqs               \* the requests: one record per inbound request

vars == <<ALLOWED_ORIGINS, ALLOWED_HOSTS, LEAD_WEBHOOK_URL, reqs>>

---------------------------------------------------------------------------
(* Sequences *)

Range(s) == { s[i] : i \in 1..Len(s) }

RECURSIVE SeqsUpTo(_, _)
\* all sequences over S of length 0..n
SeqsUpTo(S, n) ==
    IF n = 0 THEN { <<>> }
    ELSE LET shorter == SeqsUpTo(S, n - 1)
         IN  shorter \cup { Append(s, x) : s \in { t \in shorter : Len(t) = n - 1 }, x \in S }

---------------------------------------------------------------------------
(* Origin strings.  Atoms: a scheme with its "://", a host name, a port    *)
(* with its colon, a slash, and the literal null that browsers send for    *)
(* opaque origins.                                                         *)

SchemeAtoms == { "http://", "https://" }

\* host names that begin with a letter, and so also read as a URL scheme
AlphaHosts == { "localhost", "LOCALHOST", "chat-gpt-widget-three.vercel.app" }

HostAtoms == AlphaHosts \cup { "127.0.0.1" }

PortAtoms == { ":3000", ":443" }

\* the URL parser lower-cases the host of a special-scheme URL
LowerHost(h) == IF h = "LOCALHOST" THEN "localhost" ELSE h

\* the URL parser drops a port that is the scheme's default
IsDefaultPort(scheme, port) ==
    \/ scheme = "https://" /\ port = ":443"
    \/ scheme = "http://" /\ port = ":80"

RECURSIVE StripTrailingSlashes(_)
\* s.replace(/\/+$/, "")
StripTrailingSlashes(s) ==
    IF s # <<>> /\ s[Len(s)] = "/"
    THEN StripTrailingSlashes(SubSeq(s, 1, Len(s) - 1))
    ELSE s

RECURSIVE DropLeadingSlashes(_)
DropLeadingSlashes(s) ==
    IF s # <<>> /\ Head(s) = "/" THEN DropLeadingSlashes(Tail(s)) ELSE s

\* new URL(s).host: [ok |-> FALSE] when the constructor throws.  Defined on
\* the strings of OriginStrings and SpecialHeaders below.
\*  - "http(s)://" + slashes* + host + port? + path: the host, lower-cased,
\*    with the port unless it is the scheme's default; no host is a failure;
\*  - letter-initial name + ":" + digits: the name is taken as the scheme
\*    and the rest as an opaque path, so the host is the empty string;
\*  - anything else has no scheme, and without a base the parse fails.
URLHost(s) ==
    IF s = <<>> THEN [ok |-> FALSE, host |-> <<>>]
    ELSE IF Head(s) \in SchemeAtoms
    THEN LET auth == DropLeadingSlashes(Tail(s))
         IN  IF auth = <<>> \/ Head(auth) \notin HostAtoms
             THEN [ok |-> FALSE, host |-> <<>>]
             ELSE [ok |-> TRUE,
                   host |-> <<LowerHost(Head(auth))>> \o
                            (IF Len(auth) >= 2 /\ auth[2] \in PortAtoms
                                /\ ~IsDefaultPort(Head(s), auth[2])
                             THEN <<auth[2]>> ELSE <<>>)]
    ELSE IF Head(s) \in AlphaHosts /\ Len(s) >= 2 /\ s[2] \in PortAtoms
    THEN [ok |-> TRUE, host |-> <<>>]
    ELSE [ok |-> FALSE, host |-> <<>>]

\* /^https?:\/\//i.test(entry)
HasHttpScheme(entry) == entry # <<>> /\ Head(entry) \in SchemeAtoms

\* the host one configured entry contributes (the body of the loop)
NormalizeEntry(entry) ==
    IF HasHttpScheme(entry)
    THEN IF URLHost(entry).ok THEN URLHost(entry).host ELSE entry
    ELSE StripTrailingSlashes(entry)

\* normalizeAllowedHosts(list): empty entries are skipped
normalizeAllowedHosts(list) ==
    { NormalizeEntry(list[i]) : i \in { j \in 1..Len(list) : list[j] # <<>> } }

DEFAULT_ALLOWED_ORIGINS ==
    << <<"http://", "127.0.0.1", ":3000">>,
       <<"http://", "localhost", ":3000">>,
       <<"https://", "chat-gpt-widget-three.vercel.app">>,
       <<"chat-gpt-widget-three.vercel.app">> >>

\* An Origin header: absent (undefined in the code), or a string.
NoOrigin == [present |-> FALSE, value |-> <<>>]

OriginHeader(s) == [present |-> TRUE, value |-> s]

\* !origin: undefined, or the empty string
Falsy(origin) == ~origin.present \/ origin.value = <<>>

\* originToHost(origin): isNull is the null return
originToHost(origin) ==
    IF Falsy(origin) THEN [isNull |-> TRUE, host |-> <<>>]
    ELSE IF URLHost(origin.value).ok
    THEN [isNull |-> FALSE, host |-> URLHost(origin.value).host]
    ELSE [isNull |-> FALSE, host |-> StripTrailingSlashes(origin.value)]

\* Error messages are sequences of words.
NoError == <<>>

ErrOriginInvalid == <<"CORS", "origin", "invalid">>

ErrNotAllowed == <<"CORS", "policy:", "Origin", "not", "allowed">>

\* corsOptions.origin comparing host names without their ports (u.hostname
\* for u.host)
corsOriginHostnameOnly(origin, rawList, hosts) ==
    IF Falsy(origin) THEN <<>>
    ELSE LET originHost == originToHost(origin)
         IN  IF originHost.isNull \/ originHost.host = <<>> THEN <<"CORS", "origin", "invalid">>
             ELSE IF \E h \in hosts : h # <<>> /\ Head(h) = Head(originHost.host) THEN <<>>
             ELSE IF origin.value \in Range(rawList) THEN <<>>
             ELSE <<"CORS", "policy:", "Origin", "not", "allowed">>

\* corsOptions.origin without its first line: an absent Origin is looked up
\* like any other
corsOriginNoBypass(origin, rawList, hosts) ==
    LET originHost == originToHost(origin)
    IN  IF originHost.isNull \/ originHost.host = <<>> THEN <<"CORS", "origin", "invalid">>
        ELSE IF originHost.host \in hosts THEN <<>>
        ELSE IF origin.value \in Range(rawList) THEN <<>>
        ELSE <<"CORS", "policy:", "Origin", "not", "allowed">>

\* corsOptions.origin(origin, callback): the error handed to the callback,
\* NoError for callback(null, true)
corsOrigin(origin, rawList, hosts) ==
    IF Falsy(origin) THEN NoError
    ELSE LET originHost == originToHost(origin)
         IN  IF originHost.isNull \/ originHost.host = <<>> THEN ErrOriginInvalid
             ELSE IF originHost.host \in hosts THEN NoError
             ELSE IF origin.value \in Range(rawList) THEN NoError
             ELSE ErrNotAllowed

---------------------------------------------------------------------------
(* JavaScript values, as JSON.parse and the request body produce them.     *)
(* k is the kind; s the text of a string or the digits of a number; items  *)
(* the elements of an array (key <<>>) or the members of an object, in     *)
(* source order.                                                           *)

JSValue(k, s, items) == [k |-> k, s |-> s, items |-> items]

Undefined == JSValue("undef", <<>>, <<>>)

Null == JSValue("null", <<>>, <<>>)

Str(s) == JSValue("str", s, <<>>)

Num(digits) == JSValue("num", digits, <<>>)

Member(key, val) == [key |-> key, val |-> val]

Arr(vals) == JSValue("arr", <<>>, [i \in 1..Len(vals) |-> Member(<<>>, vals[i])])

Obj(members) == JSValue("obj", <<>>, members)

Elements(v) == [i \in 1..Len(v.items) |-> v.items[i].val]

\* own property of an object (the last member of that name wins)
HasOwn(v, key) == v.k = "obj" /\ \E i \in 1..Len(v.items) : v.items[i].key = key

\* v[key] for the keys the code reads: a parsed value other than an object
\* has no such property
Get(v, key) ==
    IF HasOwn(v, key)
    THEN LET I == { i \in 1..Len(v.items) : v.items[i].key = key }
         IN  v.items[CHOOSE i \in I : \A j \in I : j <= i].val
    ELSE Undefined

\* !!v: undefined, null, "" and 0 are falsy
Truthy(v) ==
    /\ v.k \notin { "undef", "null" }
    /\ ~(v.k = "str" /\ v.s = <<>>)
    /\ ~(v.k = "num" /\ \A i \in 1..Len(v.s) : v.s[i] = "0")

\* a || b
OrElse(a, b) == IF Truthy(a) THEN a ELSE b

IsArray(v) == v.k = "arr"

IsString(v) == v.k = "str"

---------------------------------------------------------------------------
(* Text atoms *)

LB == "{"

RB == "}"

LK == "["

RK == "]"

COMMA == ","

COLON == ":"

DQ == "\""

SP == " "

\* a line feed
NL == "\n"

\* the two characters backslash, n: inside a JSON string literal, a line feed
ESC_N == "\\n"

DIGIT == "7"

\* String.prototype.trim strips these
Whitespace == { SP, NL }

RECURSIVE TrimStart(_)
TrimStart(s) == IF s # <<>> /\ Head(s) \in Whitespace THEN TrimStart(Tail(s)) ELSE s

RECURSIVE TrimEnd(_)
TrimEnd(s) ==
    IF s # <<>> /\ s[Len(s)] \in Whitespace THEN TrimEnd(SubSeq(s, 1, Len(s) - 1)) ELSE s

\* s.trim()
Trim(s) == TrimEnd(TrimStart(s))

\* s.split("\n")[0]
FirstLine(s) ==
    LET I == { i \in 1..Len(s) : s[i] = NL }
    IN  IF I = {} THEN s ELSE SubSeq(s, 1, (CHOOSE i \in I : \A j \in I : i <= j) - 1)

---------------------------------------------------------------------------
(* JSON.parse on text atoms.  A result is [ok, val, next]: next is the     *)
(* index after the value.                                                  *)

ParseFail == [ok |-> FALSE, val |-> Undefined, next |-> 0]

ParseOk(val, next) == [ok |-> TRUE, val |-> val, next |-> next]

\* the first index from i on that holds no JSON whitespace
SkipWs(t, i) ==
    LET I == { j \in i..Len(t) : t[j] \notin Whitespace }
    IN  IF I = {} THEN Len(t) + 1 ELSE CHOOSE j \in I : \A k \in I : j <= k

\* a string literal opening at t[i]: up to the next quote; a raw line feed
\* inside is a syntax error, the escape is a line feed
ParseString(t, i) ==
    LET J == { j \in (i + 1)..Len(t) : t[j] = DQ }
    IN  IF J = {} THEN ParseFail
        ELSE LET j == CHOOSE x \in J : \A y \in J : x <= y
                 body == SubSeq(t, i + 1, j - 1)
             IN  IF NL \in Range(body) THEN ParseFail
                 ELSE ParseOk(Str([x \in 1..Len(body) |->
                                      IF body[x] = ESC_N THEN NL ELSE body[x]]),
                              j + 1)

\* a number opening at t[i]: the run of digits
ParseNumber(t, i) ==
    LET I == { j \in i..Len(t) : t[j] # DIGIT }
        end == IF I = {} THEN Len(t) + 1 ELSE CHOOSE j \in I : \A k \in I : j <= k
    IN  ParseOk(Num(SubSeq(t, i, end - 1)), end)

RECURSIVE ParseValue(_, _)
RECURSIVE ParseElements(_, _, _, _)
RECURSIVE ParseMembers(_, _, _, _)

\* a value opening at t[i] (whitespace already skipped)
ParseValue(t, i) ==
    IF i > Len(t) THEN ParseFail
    ELSE IF t[i] = DQ THEN ParseString(t, i)
    ELSE IF t[i] = DIGIT THEN ParseNumber(t, i)
    ELSE IF t[i] = "null" THEN ParseOk(Null, i + 1)
    ELSE IF t[i] = LK THEN ParseElements(t, SkipWs(t, i + 1), <<>>, FALSE)
    ELSE IF t[i] = LB THEN ParseMembers(t, SkipWs(t, i + 1), <<>>, FALSE)
    ELSE ParseFail

\* the rest of an array from t[i]; acc the elements so far
ParseElements(t, i, acc, afterComma) ==
    IF i > Len(t) THEN ParseFail
    ELSE IF t[i] = RK /\ ~afterComma THEN ParseOk(Arr(acc), i + 1)
    ELSE LET r == ParseValue(t, i)
             k == SkipWs(t, r.next)
         IN  IF ~r.ok \/ k > Len(t) THEN ParseFail
             ELSE IF t[k] = COMMA
             THEN ParseElements(t, SkipWs(t, k + 1), Append(acc, r.val), TRUE)
             ELSE IF t[k] = RK THEN ParseOk(Arr(Append(acc, r.val)), k + 1)
             ELSE ParseFail

\* the rest of an object from t[i]; acc the members so far
ParseMembers(t, i, acc, afterComma) ==
    IF i > Len(t) THEN ParseFail
    ELSE IF t[i] = RB /\ ~afterComma THEN ParseOk(Obj(acc), i + 1)
    ELSE IF t[i] # DQ THEN ParseFail
    ELSE LET key == ParseString(t, i)
             c == SkipWs(t, key.next)
         IN  IF ~key.ok \/ c > Len(t) \/ t[c] # COLON THEN ParseFail
             ELSE LET r == ParseValue(t, SkipWs(t, c + 1))
                      k == SkipWs(t, r.next)
                  IN  IF ~r.ok \/ k > Len(t) THEN ParseFail
                      ELSE IF t[k] = COMMA
                      THEN ParseMembers(t, SkipWs(t, k + 1),
                                        Append(acc, Member(key.val.s, r.val)), TRUE)
                      ELSE IF t[k] = RB
                      THEN ParseOk(Obj(Append(acc, Member(key.val.s, r.val))), k + 1)
                      ELSE ParseFail

\* JSON.parse(text): ok FALSE when it throws
JSONParse(t) ==
    LET r == ParseValue(t, SkipWs(t, 1))
    IN  IF r.ok /\ SkipWs(t, r.next) > Len(t) THEN r ELSE ParseFail

\* text.match(/{[\s\S]*}/): from the first "{" to the last "}" after it
MatchBraces(t) ==
    LET opens == { i \in 1..Len(t) : t[i] = LB }
        first == CHOOSE i \in opens : \A j \in opens : i <= j
        closes == { j \in 1..Len(t) : t[j] = RB /\ j > first }
        last == CHOOSE j \in closes : \A k \in closes : k <= j
    IN  IF opens = {} \/ closes = {} THEN [found |-> FALSE, m |-> <<>>]
        ELSE [found |-> TRUE, m |-> SubSeq(t, first, last)]

\* What the model call resolves to at response.choices[0].message.content:
\* a string, or something else (isString FALSE: null, a missing field, a
\* value that is no string).
TextContent(t) == [isString |-> TRUE, nullish |-> FALSE, text |-> t]

NullContent == [isString |-> FALSE, nullish |-> TRUE, text |-> <<>>]

OtherContent == [isString |-> FALSE, nullish |-> FALSE, text |-> <<>>]

\* response?.choices?.[0]?.message?.content ?? ""
RawOf(content) == IF content.nullish THEN TextContent(<<>>) ELSE content

\* tryParseJsonFromText(text): Null is the null return
tryParseJsonFromText(raw) ==
    IF ~raw.isString \/ raw.text = <<>> THEN Null
    ELSE IF JSONParse(raw.text).ok THEN JSONParse(raw.text).val
    ELSE IF MatchBraces(raw.text).found
    THEN IF JSONParse(MatchBraces(raw.text).m).ok
         THEN JSONParse(MatchBraces(raw.text).m).val
         ELSE Null
    ELSE Null

---------------------------------------------------------------------------
(* The text the model writes for a value: the serialization that the code  *)
(* parses back.  Used to build upstream texts; the code never calls it.    *)

RECURSIVE Render(_)
RECURSIVE RenderItems(_, _, _)

Render(v) ==
    IF v.k = "str"
    THEN <<DQ>> \o [x \in 1..Len(v.s) |-> IF v.s[x] = NL THEN ESC_N ELSE v.s[x]] \o <<DQ>>
    ELSE IF v.k = "num" THEN v.s
    ELSE IF v.k = "arr" THEN <<LK>> \o RenderItems(v.items, 1, FALSE) \o <<RK>>
    ELSE IF v.k = "obj" THEN <<LB>> \o RenderItems(v.items, 1, TRUE) \o <<RB>>
    ELSE <<"null">>

RenderItems(items, i, keyed) ==
    IF i > Len(items) THEN <<>>
    ELSE (IF i > 1 THEN <<COMMA>> ELSE <<>>)
         \o (IF keyed THEN Render(Str(items[i].key)) \o <<COLON>> ELSE <<>>)
         \o Render(items[i].val)
         \o RenderItems(items, i + 1, keyed)

---------------------------------------------------------------------------
(* String(v).  An object that JSON.parse built is converted by             *)
(* Object.prototype.toString unless it has an own member named toString:   *)
(* that member is no function, valueOf returns the object, and the         *)
(* conversion throws a TypeError (ok FALSE).                               *)

RECURSIVE ToStr(_)
RECURSIVE JoinElements(_, _)

ToStr(v) ==
    IF v.k \in { "str", "num" } THEN [ok |-> TRUE, s |-> v.s]
    ELSE IF v.k = "null" THEN [ok |-> TRUE, s |-> <<"null">>]
    ELSE IF v.k = "undef" THEN [ok |-> TRUE, s |-> <<"undefined">>]
    ELSE IF v.k = "arr" THEN JoinElements(Elements(v), 1)
    ELSE IF HasOwn(v, <<"toString">>) THEN [ok |-> FALSE, s |-> <<>>]
    ELSE [ok |-> TRUE, s |-> <<"[object Object]">>]

\* Array.prototype.join(","): null and undefined elements are empty
JoinElements(vals, i) ==
    IF i > Len(vals) THEN [ok |-> TRUE, s |-> <<>>]
    ELSE LET head == IF vals[i].k \in { "null", "undef" }
                     THEN [ok |-> TRUE, s |-> <<>>] ELSE ToStr(vals[i])
             rest == JoinElements(vals, i + 1)
         IN  IF ~head.ok \/ ~rest.ok THEN [ok |-> FALSE, s |-> <<>>]
             ELSE [ok |-> TRUE,
                   s |-> head.s \o (IF i < Len(vals) THEN <<COMMA>> ELSE <<>>) \o rest.s]

TypeErrorText == "TypeError: Cannot convert object to primitive value"

---------------------------------------------------------------------------
(* Responses *)

NoBody ==
    [keys |-> {}, error |-> "", message |-> <<>>, details |-> "",
     reply |-> <<>>, chips |-> <<>>, success |-> FALSE, forwarded |-> FALSE,
     data |-> Undefined]

Resp(status, body) == [status |-> status, body |-> body]

NoResp == Resp(0, NoBody)

ErrorBody(error) == [NoBody EXCEPT !.keys = { "error" }, !.error = error]

DetailedErrorBody(error, details) ==
    [NoBody EXCEPT !.keys = { "error", "details" }, !.error = error, !.details = details]

\* the error-handling middleware after cors: a CORS error is answered 403;
\* any other error goes on to the framework's default handler (500)
ContainsCORS(msg) == \E i \in 1..Len(msg) : msg[i] \in { "CORS", "cors", "Cors" }

\* an error handler whose pattern matches no message of the gate
CorsErrorHandlerNoMatch(err) == Resp(500, NoBody)

CorsErrorHandler(err) ==
    IF err # NoError /\ ContainsCORS(err)
    THEN Resp(403, [NoBody EXCEPT !.keys = { "error", "message" },
                                  !.error = "CORS error", !.message = err])
    ELSE Resp(500, NoBody)

---------------------------------------------------------------------------
(* POST /chat *)

WindowSize == 8

ChipCap == 6

MaxTokens == 350

\* the system turn; its text is policy content
SystemTurn ==
    Obj(<<Member(<<"role">>, Str(<<"system">>)), Member(<<"content">>, Str(<<"systemPrompt">>))>>)

\* a.slice(-n)
LastN(a, n) == IF Len(a) <= n THEN a ELSE SubSeq(a, Len(a) - n + 1, Len(a))

\* a.slice(0, n)
FirstN(a, n) == IF Len(a) <= n THEN a ELSE SubSeq(a, 1, n)

\* the validation without its Array.isArray test
MessagesInvalidFalsyOnly(messages) == ~Truthy(messages)

\* !messages || !Array.isArray(messages)
MessagesInvalid(messages) == ~Truthy(messages) \/ ~IsArray(messages)

\* a window over a history kept across requests: the turns of the first
\* request come before the caller's own
payloadMessagesKeepingHistory(messages) ==
    <<SystemTurn>> \o LastN(Elements(reqs[1].body.messages) \o Elements(messages), WindowSize)

\* a window that keeps the oldest turns, not the newest
payloadMessagesOldest(messages) == <<SystemTurn>> \o FirstN(Elements(messages), WindowSize)

\* [{ role: "system", content: systemPrompt }, ...messages.slice(-8)]
payloadMessages(messages) == <<SystemTurn>> \o LastN(Elements(messages), WindowSize)

ChatRequestParams(messages) ==
    [model |-> "gpt-4o-mini", messages |-> payloadMessages(messages),
     temperature |-> 0, max_tokens |-> MaxTokens]

NoParams == [model |-> "", messages |-> <<>>, temperature |-> 0, max_tokens |-> 0]

\* parsed && typeof parsed.reply === "string" && Array.isArray(parsed.chips)
HasReplyShape(parsed) ==
    Truthy(parsed) /\ IsString(Get(parsed, <<"reply">>)) /\ IsArray(Get(parsed, <<"chips">>))

NonEmpty(s) == s # <<>>

\* the chips shaping without its slice(0, 6)
ShapeChipsNoCap(chips) ==
    LET strs == [i \in 1..Len(chips) |-> ToStr(chips[i])]
    IN  IF \E i \in 1..Len(strs) : ~strs[i].ok THEN [ok |-> FALSE, chips |-> <<>>]
        ELSE [ok |-> TRUE,
              chips |-> SelectSeq([i \in 1..Len(strs) |-> Trim(strs[i].s)], NonEmpty)]

\* chips.map((c) => String(c).trim()).filter(Boolean).slice(0, 6);
\* ok FALSE when a String(c) throws
ShapeChips(chips) ==
    LET strs == [i \in 1..Len(chips) |-> ToStr(chips[i])]
    IN  IF \E i \in 1..Len(strs) : ~strs[i].ok THEN [ok |-> FALSE, chips |-> <<>>]
        ELSE [ok |-> TRUE,
              chips |-> FirstN(SelectSeq([i \in 1..Len(strs) |-> Trim(strs[i].s)], NonEmpty),
                               ChipCap)]

ReplyBody(reply, chips) ==
    [NoBody EXCEPT !.keys = { "reply", "chips" }, !.reply = reply, !.chips = chips]

Placeholder == <<"Sorry,", SP, "try", SP, "again">>

defaultChips == << <<"Apply", SP, "now">> >>

\* the fallback when the text gave no {reply, chips} object
FallbackResponse(raw) ==
    Resp(200, ReplyBody(Trim(IF raw.isString THEN FirstLine(raw.text) ELSE Placeholder),
                        defaultChips))

\* the handler from the resolved model call to its response; the catch
\* block answers a throw with 500 chat_error
ChatResponse(content) ==
    LET raw == RawOf(content)
        parsed == tryParseJsonFromText(raw)
    IN  IF HasReplyShape(parsed)
        THEN LET shaped == ShapeChips(Elements(Get(parsed, <<"chips">>)))
             IN  IF shaped.ok
                 THEN Resp(200, ReplyBody(Trim(Get(parsed, <<"reply">>).s), shaped.chips))
                 ELSE Resp(500, DetailedErrorBody("chat_error", TypeErrorText))
        ELSE FallbackResponse(raw)

\* a catch block that answers without the details
ChatErrorResponseNoDetails(err) == Resp(500, ErrorBody("chat_error"))

\* the catch block, for a model call that rejected with err
ChatErrorResponse(err) == Resp(500, DetailedErrorBody("chat_error", err))

---------------------------------------------------------------------------
(* POST /lead *)

DigitAtoms == { "0", "1", "2", "3", "4", "5", "6", "7", "8", "9" }

IsDigit(a) == a \in DigitAtoms

\* a phone forwarded as it was submitted
DigitsOnlyKeepAll(s) == s

\* s.replace(/\D/g, "")
DigitsOnly(s) == SelectSeq(s, IsDigit)

\* !name || !phone
LeadInvalid(body) == ~Truthy(body.name) \/ ~Truthy(body.phone)

NowText == Str(<<"now">>)

NoPayload ==
    [name |-> Undefined, phone |-> <<>>, firstMessage |-> Undefined,
     conversation |-> Undefined, timestamp |-> Undefined]

LeadPayload(body) ==
    [name |-> body.name,
     phone |-> DigitsOnly(ToStr(body.phone).s),
     firstMessage |-> OrElse(body.firstMessage, Str(<<>>)),
     conversation |-> OrElse(body.conversation, Arr(<<>>)),
     timestamp |-> OrElse(body.timestamp, NowText)]

\* a success response that attaches the data as it came
LeadSuccessResponseRawData(data) ==
    Resp(200, [NoBody EXCEPT !.keys = { "success", "forwarded", "appsScriptResponse" },
                             !.success = TRUE, !.forwarded = TRUE, !.data = data])

\* axiosResp.data || null
LeadSuccessResponse(data) ==
    Resp(200, [NoBody EXCEPT !.keys = { "success", "forwarded", "appsScriptResponse" },
                             !.success = TRUE, !.forwarded = TRUE,
                             !.data = OrElse(data, Null)])

LeadErrorResponse(err) == Resp(500, DetailedErrorBody("lead_forward_error", err))

---------------------------------------------------------------------------
(* Requests.  A request is received (body parsing, the cors middleware,    *)
(* the route handler up to its await), then its outbound call resolves or  *)
(* rejects and the handler answers.                                        *)

NoReqBody ==
    [messages |-> Undefined, turns |-> Undefined, name |-> Undefined, phone |-> Undefined,
     firstMessage |-> Undefined, conversation |-> Undefined, timestamp |-> Undefined]

ChatBody(messages, turns) == [NoReqBody EXCEPT !.messages = messages, !.turns = turns]

LeadBody(name, phone) == [NoReqBody EXCEPT !.name = name, !.phone = phone]

\* what the model call resolved to, and how that text was put together:
\* kind "object" is Render(obj), "wrapped" is pre \o Render(obj) \o post,
\* "junk" a text without any JSON value meant, "value" another JSON value,
\* "cut" a Render(obj) cut short, "none" a content that is no string
Upstream(kind, content, obj, pre, post) ==
    [kind |-> kind, content |-> content, obj |-> obj, pre |-> pre, post |-> post]

NoUpstream == Upstream("", NullContent, Undefined, <<>>, <<>>)

FreshRequest ==
    [pc |-> "new", route |-> "", origin |-> NoOrigin, body |-> NoReqBody,
     gate |-> "none", handlerRan |-> FALSE, resp |-> NoResp, responses |-> 0,
     openaiCalls |-> 0, sent |-> NoParams, up |-> NoUpstream, outcome |-> "",
     err |-> "", data |-> Undefined, webhookCalls |-> 0, payload |-> NoPayload]

\* a handler that returns without sending its response
AnswerUnsent(r, resp) == [r EXCEPT !.pc = "done"]

\* res.status(..).json(..): the request is answered
Answer(r, resp) == [r EXCEPT !.pc = "done", !.resp = resp, !.responses = @ + 1]

\* app.use(cors(corsOptions)) and the error handler after it
Gate(r, route, origin, body) ==
    LET err == corsOrigin(origin, ALLOWED_ORIGINS, ALLOWED_HOSTS)
        seen == [r EXCEPT !.route = route, !.origin = origin, !.body = body]
    IN  IF err # NoError
        THEN Answer([seen EXCEPT !.gate = "deny"], CorsErrorHandler(err))
        ELSE [seen EXCEPT !.gate = "allow", !.handlerRan = TRUE]

\* app.post("/chat"), to the await of the model call
ChatHandler(r) ==
    IF MessagesInvalid(r.body.messages)
    THEN Answer(r, Resp(400, ErrorBody("messages (array) required")))
    ELSE [r EXCEPT !.pc = "awaitOpenAI", !.openaiCalls = @ + 1,
                   !.sent = ChatRequestParams(r.body.messages)]

\* The logging variant of the server (src/unnamed/part_001) has the same
\* origin gate, coercion and /lead handler; its /chat handler logs every
\* message and chooses the model and the token limit before it calls.

\* msg.role of a null element
LogNullTurnText == "TypeError: Cannot read properties of null (reading 'role')"

\* msg.content?.substring(0, 50) of a content that is no string
LogContentText == "TypeError: msg.content?.substring is not a function"

\* the test of userInput, a name that no declaration of the file binds
UserInputText == "ReferenceError: userInput is not defined"

\* the template literal of the log line: "" when it evaluates, else the
\* error it throws
LogTurnError(msg) ==
    IF msg.k \in { "null", "undef" } THEN LogNullTurnText
    ELSE IF Get(msg, <<"content">>).k \in { "undef", "null", "str" } THEN ""
    ELSE LogContentText

\* messages.forEach(...): the error of the first element that throws
LogMessagesError(turns) ==
    LET I == { i \in 1..Len(turns) : LogTurnError(turns[i]) # "" }
    IN  IF I = {} THEN "" ELSE LogTurnError(turns[CHOOSE i \in I : \A j \in I : i <= j])

\* app.post("/chat") of the logging variant: the validation, the log of the
\* messages, the test of userInput.  That test throws, so the handler goes
\* to its catch block before the model call.
LoggingChatHandler(r) ==
    IF MessagesInvalid(r.body.messages)
    THEN Answer(r, Resp(400, ErrorBody("messages (array) required")))
    ELSE IF LogMessagesError(Elements(r.body.messages)) # ""
    THEN Answer(r, ChatErrorResponse(LogMessagesError(Elements(r.body.messages))))
    ELSE Answer(r, ChatErrorResponse(UserInputText))

\* a handler that looks at the configuration before the fields
LeadHandlerConfigFirst(r) ==
    IF LEAD_WEBHOOK_URL = <<>>
    THEN Answer(r, Resp(500, ErrorBody("lead_webhook_not_configured")))
    ELSE IF LeadInvalid(r.body)
    THEN Answer(r, Resp(400, ErrorBody("name & phone required")))
    ELSE IF ~ToStr(r.body.phone).ok
    THEN Answer(r, LeadErrorResponse(TypeErrorText))
    ELSE [r EXCEPT !.pc = "awaitWebhook", !.webhookCalls = @ + 1,
                   !.payload = LeadPayload(r.body)]

\* a handler without the configuration check: it posts to the empty URL
LeadHandlerNoConfigCheck(r) ==
    IF LeadInvalid(r.body)
    THEN Answer(r, Resp(400, ErrorBody("name & phone required")))
    ELSE IF ~ToStr(r.body.phone).ok
    THEN Answer(r, LeadErrorResponse(TypeErrorText))
    ELSE [r EXCEPT !.pc = "awaitWebhook", !.webhookCalls = @ + 1,
                   !.payload = LeadPayload(r.body)]

\* a handler that forwards a lead only if no earlier request forwarded the
\* same body
LeadHandlerDeduplicating(r) ==
    IF LeadInvalid(r.body)
    THEN Answer(r, Resp(400, ErrorBody("name & phone required")))
    ELSE IF LEAD_WEBHOOK_URL = <<>>
    THEN Answer(r, Resp(500, ErrorBody("lead_webhook_not_configured")))
    ELSE IF ~ToStr(r.body.phone).ok
    THEN Answer(r, LeadErrorResponse(TypeErrorText))
    ELSE IF \E j \in DOMAIN reqs : reqs[j].body = r.body /\ reqs[j].webhookCalls > 0
    THEN Answer(r, LeadSuccessResponse(Null))
    ELSE [r EXCEPT !.pc = "awaitWebhook", !.webhookCalls = @ + 1,
                   !.payload = LeadPayload(r.body)]

\* app.post("/lead"), to the await of the webhook call
LeadHandler(r) ==
    IF LeadInvalid(r.body)
    THEN Answer(r, Resp(400, ErrorBody("name & phone required")))
    ELSE IF LEAD_WEBHOOK_URL = <<>>
    THEN Answer(r, Resp(500, ErrorBody("lead_webhook_not_configured")))
    ELSE IF ~ToStr(r.body.phone).ok
    THEN Answer(r, LeadErrorResponse(TypeErrorText))
    ELSE [r EXCEPT !.pc = "awaitWebhook", !.webhookCalls = @ + 1,
                   !.payload = LeadPayload(r.body)]

ReceiveChat(i, Origins, Bodies) ==
    /\ reqs[i].pc = "new"
    /\ \E origin \in Origins, body \in Bodies :
         LET r == Gate(reqs[i], "chat", origin, body)
         IN  reqs' = [reqs EXCEPT ![i] = IF r.gate = "allow" THEN ChatHandler(r) ELSE r]
    /\ UNCHANGED <<ALLOWED_ORIGINS, ALLOWED_HOSTS, LEAD_WEBHOOK_URL>>

ReceiveChatLogging(i, Origins, Bodies) ==
    /\ reqs[i].pc = "new"
    /\ \E origin \in Origins, body \in Bodies :
         LET r == Gate(reqs[i], "chat", origin, body)
         IN  reqs' = [reqs EXCEPT ![i] = IF r.gate = "allow" THEN LoggingChatHandler(r) ELSE r]
    /\ UNCHANGED <<ALLOWED_ORIGINS, ALLOWED_HOSTS, LEAD_WEBHOOK_URL>>

ReceiveLead(i, Origins, Bodies) ==
    /\ reqs[i].pc = "new"
    /\ \E origin \in Origins, body \in Bodies :
         LET r == Gate(reqs[i], "lead", origin, body)
         IN  reqs' = [reqs EXCEPT ![i] = IF r.gate = "allow" THEN LeadHandler(r) ELSE r]
    /\ UNCHANGED <<ALLOWED_ORIGINS, ALLOWED_HOSTS, LEAD_WEBHOOK_URL>>

\* the model call resolves
ChatResolve(i, Replies) ==
    /\ reqs[i].pc = "awaitOpenAI"
    /\ \E up \in Replies :
         reqs' = [reqs EXCEPT ![i] =
                    Answer([@ EXCEPT !.up = up, !.outcome = "resolved"],
                           ChatResponse(up.content))]
    /\ UNCHANGED <<ALLOWED_ORIGINS, ALLOWED_HOSTS, LEAD_WEBHOOK_URL>>

\* a network error, a non-success status, a timeout
UpstreamErrors == { "Error: Request failed with status code 500", "Error: timeout" }

\* the model call rejects
ChatReject(i) ==
    /\ reqs[i].pc = "awaitOpenAI"
    /\ \E err \in UpstreamErrors :
         reqs' = [reqs EXCEPT ![i] =
                    Answer([@ EXCEPT !.outcome = "rejected", !.err = err],
                           ChatErrorResponse(err))]
    /\ UNCHANGED <<ALLOWED_ORIGINS, ALLOWED_HOSTS, LEAD_WEBHOOK_URL>>

\* the webhook call resolves with a response body
LeadResolve(i, Datas) ==
    /\ reqs[i].pc = "awaitWebhook"
    /\ \E data \in Datas :
         reqs' = [reqs EXCEPT ![i] =
                    Answer([@ EXCEPT !.outcome = "resolved", !.data = data],
                           LeadSuccessResponse(data))]
    /\ UNCHANGED <<ALLOWED_ORIGINS, ALLOWED_HOSTS, LEAD_WEBHOOK_URL>>

\* the webhook call rejects
LeadReject(i) ==
    /\ reqs[i].pc = "awaitWebhook"
    /\ \E err \in UpstreamErrors :
         reqs' = [reqs EXCEPT ![i] =
                    Answer([@ EXCEPT !.outcome = "rejected", !.err = err],
                           LeadErrorResponse(err))]
    /\ UNCHANGED <<ALLOWED_ORIGINS, ALLOWED_HOSTS, LEAD_WEBHOOK_URL>>

\* the process starts: the allow-list is read and normalized once
Startup(list, webhook, n) ==
    /\ ALLOWED_ORIGINS = list
    /\ ALLOWED_HOSTS = normalizeAllowedHosts(list)
    /\ LEAD_WEBHOOK_URL = webhook
    /\ reqs = [i \in 1..n |-> FreshRequest]

WebhookUrl == <<"https://", "hook.example">>

---------------------------------------------------------------------------
(* The origin gate under every small allow-list *)

MaxEntries == 1

\* runs of trailing slashes: of an entry, of a header (one slash more)
EntrySlashes == { <<>>, <<"/">> }

HeaderSlashes == EntrySlashes \cup { <<"/", "/">> }

SchemePrefixes == { <<>> } \cup { <<a>> : a \in SchemeAtoms }

PortSuffixes == { <<>> } \cup { <<a>> : a \in PortAtoms }

\* scheme? host port? slash*
OriginStrings(hosts, slashRuns) ==
    { scheme \o <<h>> \o port \o slashes :
        scheme \in SchemePrefixes, h \in hosts, port \in PortSuffixes, slashes \in slashRuns }

\* what ALLOWED_ORIGINS may hold: an entry may also be the empty string
EntryStrings == OriginStrings({ "localhost", "127.0.0.1" }, EntrySlashes) \cup { <<>> }

AllowLists == SeqsUpTo(EntryStrings, MaxEntries) \cup { DEFAULT_ALLOWED_ORIGINS }

\* what a client may send as Origin: nothing, an origin string, the empty
\* string, a lone slash, the literal null
GateOrigins ==
    { NoOrigin }
    \cup { OriginHeader(s) :
             s \in OriginStrings({ "localhost", "LOCALHOST", "127.0.0.1" }, HeaderSlashes) }
    \cup { OriginHeader(<<>>), OriginHeader(<<"/">>), OriginHeader(<<"null">>) }

Turn(role, content) ==
    Obj(<<Member(<<"role">>, Str(<<role>>)), Member(<<"content">>, Str(content))>>)

ReplyObject(reply, chips) ==
    Obj(<<Member(<<"reply">>, Str(reply)), Member(<<"chips">>, Arr(chips))>>)

BareObject(obj) == Upstream("object", TextContent(Render(obj)), obj, <<>>, <<>>)

JunkText(t) == Upstream("junk", TextContent(t), Undefined, <<>>, <<>>)

GateChatBodies == { ChatBody(Arr(<<Turn("user", <<"hi">>)>>), Undefined) }

GateLeadBodies == { LeadBody(Str(<<"Asha">>), Str(<<"+", "9", "1", SP, "9", "8", "-", "7">>)) }

GateReplies == { BareObject(ReplyObject(<<"ok">>, <<Str(<<"Fees?">>)>>)), JunkText(<<"w">>) }

\* the body of the webhook's response: none, an object, the empty text
WebhookDatas == { Undefined, Obj(<<Member(<<"result">>, Str(<<"ok">>))>>), Str(<<>>) }

InitGate == \E list \in AllowLists : Startup(list, WebhookUrl, 1)

NextGate ==
    \/ ReceiveChat(1, GateOrigins, GateChatBodies)
    \/ ReceiveLead(1, GateOrigins, GateLeadBodies)
    \/ ChatResolve(1, GateReplies)
    \/ ChatReject(1)
    \/ LeadResolve(1, WebhookDatas)
    \/ LeadReject(1)

SpecGate == InitGate /\ [][NextGate]_vars

---------------------------------------------------------------------------
(* POST /chat under the default allow-list, over the texts a model call    *)
(* may resolve to                                                          *)

MaxChips == 7

MaxJunk == 3

\* sequences over S of length lo..hi
SeqsBetween(S, lo, hi) == { q \in SeqsUpTo(S, hi) : Len(q) >= lo }

ReplyTexts == { <<>>, <<SP>>, <<"a">>, <<SP, "a", NL>>, <<"a", SP, RB, "b">> }

PlainChip == Str(<<"x">>)

PaddedChip == Str(<<SP, "y", NL>>)

BlankChip == Str(<<SP>>)

ToStringChip == Obj(<<Member(<<"toString">>, Num(<<DIGIT>>))>>)

\* what a chips array may hold
ChipValues ==
    { PlainChip, PaddedChip, BlankChip, Str(<<>>), Num(<<DIGIT>>), Null,
      Arr(<<>>), Arr(<<Null, PlainChip>>), Obj(<<>>), ToStringChip }

\* every short array, and the long arrays of padded and blank strings
ChipArrays ==
    SeqsUpTo(ChipValues, 2) \cup SeqsBetween({ PaddedChip, BlankChip }, 3, MaxChips)

ReplyObjects == { ReplyObject(reply, chips) : reply \in ReplyTexts, chips \in ChipArrays }

\* text around an object: words, blanks, line feeds, brackets, braces
Prefixes == { <<>>, <<SP>>, <<NL>>, <<"w", SP>>, <<LK>>, <<LB, "w", RB, SP>> }

Suffixes == { <<>>, <<NL>>, <<SP, "w">>, <<RK>>, <<SP, LB, "w", RB>> }

WrappedObjects ==
    { ReplyObject(reply, chips) :
        reply \in { <<"a">>, <<SP, "a", NL>>, <<"a", SP, RB, "b">> },
        chips \in SeqsUpTo({ PlainChip, PaddedChip, Num(<<DIGIT>>) }, 1) }

Wrapped(obj, pre, post) ==
    Upstream("wrapped", TextContent(pre \o Render(obj) \o post), obj, pre, post)

JunkAtoms == { "w", SP, NL, LB, RB }

\* JSON values that are no {reply, chips} object
OtherValues ==
    { Num(<<DIGIT>>), Null, Str(<<"a">>), Arr(<<>>),
      Arr(<<ReplyObject(<<"a">>, <<PlainChip>>)>>),
      Obj(<<>>),
      Obj(<<Member(<<"reply">>, Str(<<"a">>))>>),
      Obj(<<Member(<<"reply">>, Num(<<DIGIT>>)), Member(<<"chips">>, Arr(<<>>))>>),
      Obj(<<Member(<<"reply">>, Str(<<"a">>)), Member(<<"chips">>, Str(<<"x">>))>>) }

CutObject == ReplyObject(<<"a">>, <<PlainChip>>)

ChatReplies ==
    { BareObject(obj) : obj \in ReplyObjects }
    \cup { Wrapped(obj, w[1], w[2]) :
             obj \in WrappedObjects,
             w \in { x \in Prefixes \X Suffixes : x[1] # <<>> \/ x[2] # <<>> } }
    \cup { JunkText(t) : t \in SeqsUpTo(JunkAtoms, MaxJunk) }
    \cup { Upstream("value", TextContent(Render(v)), v, <<>>, <<>>) : v \in OtherValues }
    \cup { Upstream("cut", TextContent(SubSeq(Render(CutObject), 1, n)), CutObject, <<>>, <<>>) :
             n \in 1..(Len(Render(CutObject)) - 1) }
    \cup { Upstream("none", NullContent, Undefined, <<>>, <<>>),
           Upstream("none", OtherContent, Undefined, <<>>, <<>>) }

ChatOrigins ==
    { NoOrigin,
      OriginHeader(<<"http://", "localhost", ":3000">>),
      OriginHeader(<<"http://", "127.0.0.1">>) }

UserTurn == Turn("user", <<"hi">>)

\* a body's messages, and its turns (a name the handler never reads)
MessagesValues ==
    { Undefined, Null, Str(<<>>), Str(<<"hi">>), Num(<<"0">>), Obj(<<>>),
      Arr(<<>>), Arr(<<UserTurn>>) }

\* every messages value without turns and with a turns array, and the other
\* turns values on a missing and on a present messages array
ChatBodies ==
    { ChatBody(m, t) : m \in MessagesValues, t \in { Undefined, Arr(<<UserTurn>>) } }
    \cup { ChatBody(m, Str(<<"hi">>)) : m \in { Undefined, Arr(<<UserTurn>>) } }

ChatLeadBodies ==
    { LeadBody(Str(<<"Asha">>), Str(<<"+", "9", "1", SP, "9", "8", "-", "7">>)),
      LeadBody(Undefined, Str(<<"9", "1">>)) }

InitChat == Startup(DEFAULT_ALLOWED_ORIGINS, WebhookUrl, 1)

NextChat ==
    \/ ReceiveChat(1, ChatOrigins, ChatBodies)
    \/ ReceiveLead(1, ChatOrigins, ChatLeadBodies)
    \/ ChatResolve(1, ChatReplies)
    \/ ChatReject(1)
    \/ LeadResolve(1, WebhookDatas)
    \/ LeadReject(1)

SpecChat == InitChat /\ [][NextChat]_vars

---------------------------------------------------------------------------
(* Both routes, one request at a time, the webhook configured or not:      *)
(* conversations longer than the window, lead bodies of every shape        *)

MaxTurns == 10

\* the i-th turn of a conversation: the roles alternate, every content is
\* different from the others
CallerTurn(i) == Turn(IF i % 2 = 1 THEN "user" ELSE "assistant", [j \in 1..i |-> "a"])

Conversation(k) == Arr([i \in 1..k |-> CallerTurn(i)])

\* an array whose elements are no well-formed turns
OddTurns == Arr(<<Null, Turn("tool", <<>>), Num(<<DIGIT>>), UserTurn>>)

ServeChatBodies ==
    { ChatBody(Conversation(k), Undefined) : k \in 0..MaxTurns }
    \cup { ChatBody(OddTurns, Undefined), ChatBody(Undefined, Undefined),
           ChatBody(Str(<<"hi">>), Undefined) }

ExamplePhone == <<"+", "9", "1", SP, "9", "8", "7", "6", "5", "-", "4", "3", "2", "1", "0">>

LeadNames == { Undefined, Null, Str(<<>>), Str(<<"Asha">>) }

\* absent, empty, the number 0, strings with and without digits, a number,
\* an object whose toString member is no function
LeadPhones ==
    { Undefined, Str(<<>>), Num(<<"0">>), Str(ExamplePhone), Str(<<"-", SP>>),
      Str(<<"9", "1">>), Num(<<"9", "1">>), ToStringChip }

\* firstMessage, conversation, timestamp: absent, present, present and empty
LeadExtras ==
    { <<Undefined, Undefined, Undefined>>,
      <<Str(<<"Fees?">>), Arr(<<UserTurn>>), Str(<<"2024-01-01T00:00:00.000Z">>)>>,
      <<Str(<<>>), Arr(<<>>), Str(<<>>)>> }

FullLeadBody(name, phone, extras) ==
    [LeadBody(name, phone) EXCEPT !.firstMessage = extras[1], !.conversation = extras[2],
                                  !.timestamp = extras[3]]

ServeLeadBodies ==
    { FullLeadBody(name, phone, extras) :
        name \in LeadNames, phone \in LeadPhones, extras \in LeadExtras }

ServeOrigins ==
    { NoOrigin,
      OriginHeader(<<"http://", "localhost", ":3000">>),
      OriginHeader(<<"https://", "evil.example">>) }

\* LEAD_WEBHOOK_URL from the environment: set, or unset ("")
WebhookConfigs == { WebhookUrl, <<>> }

InitServe == \E webhook \in WebhookConfigs : Startup(DEFAULT_ALLOWED_ORIGINS, webhook, 1)

NextServe ==
    \/ ReceiveChat(1, ServeOrigins, ServeChatBodies)
    \/ ReceiveLead(1, ServeOrigins, ServeLeadBodies)
    \/ ChatResolve(1, GateReplies)
    \/ ChatReject(1)
    \/ LeadResolve(1, WebhookDatas)
    \/ LeadReject(1)

SpecServe == InitServe /\ [][NextServe]_vars

---------------------------------------------------------------------------
(* Two requests handled concurrently: each handler runs to its await, and  *)
(* the outbound calls resolve or reject in any order                       *)

PairChatBodies ==
    { ChatBody(Conversation(1), Undefined), ChatBody(Conversation(2), Undefined),
      ChatBody(Undefined, Undefined) }

PairLeadBodies ==
    { LeadBody(Str(<<"Asha">>), Str(<<"9", "1">>)),
      LeadBody(Str(<<"Asha">>), Str(<<"+", "9", "1", SP, "7">>)),
      LeadBody(Str(<<>>), Str(<<"9", "1">>)) }

PairOrigins ==
    { NoOrigin,
      OriginHeader(<<"http://", "localhost", ":3000">>),
      OriginHeader(<<"https://", "evil.example">>) }

InitPair == \E webhook \in WebhookConfigs : Startup(DEFAULT_ALLOWED_ORIGINS, webhook, 2)

NextPair ==
    \/ ReceiveChat(1, PairOrigins, PairChatBodies)
    \/ ReceiveLead(1, PairOrigins, PairLeadBodies)
    \/ ChatResolve(1, GateReplies)
    \/ ChatReject(1)
    \/ LeadResolve(1, WebhookDatas)
    \/ LeadReject(1)
    \/ ReceiveChat(2, PairOrigins, PairChatBodies)
    \/ ReceiveLead(2, PairOrigins, PairLeadBodies)
    \/ ChatResolve(2, GateReplies)
    \/ ChatReject(2)
    \/ LeadResolve(2, WebhookDatas)
    \/ LeadReject(2)

SpecPair == InitPair /\ [][NextPair]_vars

\* every outbound call completes, fails or times out: the model call has
\* the client's timeout, the webhook call the timeout of 15 seconds
SpecPairFair ==
    /\ SpecPair
    /\ WF_vars(ChatResolve(1, GateReplies) \/ ChatReject(1))
    /\ WF_vars(LeadResolve(1, WebhookDatas) \/ LeadReject(1))
    /\ WF_vars(ChatResolve(2, GateReplies) \/ ChatReject(2))
    /\ WF_vars(LeadResolve(2, WebhookDatas) \/ LeadReject(2))

---------------------------------------------------------------------------
(* The logging variant, one request at a time.  Its model call is never    *)
(* reached, so no step resolves or rejects one.                            *)

LoggingChatBodies ==
    ServeChatBodies
    \cup { ChatBody(Arr(<<Obj(<<Member(<<"content">>, Num(<<DIGIT>>))>>)>>), Undefined),
           ChatBody(Arr(<<Str(<<"hi">>)>>), Undefined) }

InitLogging == \E webhook \in WebhookConfigs : Startup(DEFAULT_ALLOWED_ORIGINS, webhook, 1)

NextLogging ==
    \/ ReceiveChatLogging(1, ServeOrigins, LoggingChatBodies)
    \/ ReceiveLead(1, ServeOrigins, ServeLeadBodies)
    \/ LeadResolve(1, WebhookDatas)
    \/ LeadReject(1)

SpecLogging == InitLogging /\ [][NextLogging]_vars

---------------------------------------------------------------------------
(* Claims: the origin gate (SpecGate) *)

Requests == { reqs[i] : i \in DOMAIN reqs }

Gated == { r \in Requests : r.gate # "none" }

\* C1: a request that carries an Origin header whose extracted host is not
\* in the normalized host set and whose raw string is not a configured
\* entry is denied.
C1_UnlistedOriginDenied ==
    \A r \in Gated :
        ( /\ r.origin.present
          /\ ~( ~originToHost(r.origin).isNull
                /\ originToHost(r.origin).host \in ALLOWED_HOSTS )
          /\ r.origin.value \notin Range(ALLOWED_ORIGINS) )
        => r.gate = "deny"

\* C1 amended: the same, for a request whose Origin header is not the empty
\* string (an empty header value is admitted like an absent header).
C1_NonEmptyUnlistedOriginDenied ==
    \A r \in Gated :
        ( /\ r.origin.present
          /\ r.origin.value # <<>>
          /\ ~( ~originToHost(r.origin).isNull
                /\ originToHost(r.origin).host \in ALLOWED_HOSTS )
          /\ r.origin.value \notin Range(ALLOWED_ORIGINS) )
        => r.gate = "deny"

C1_Witness ==
    \E r \in Gated :
        /\ r.route = "chat"
        /\ r.origin.value = <<"https://", "localhost", ":3000">>
        /\ ALLOWED_ORIGINS = << <<"127.0.0.1", ":3000">> >>
        /\ r.gate = "deny"
        /\ r.resp.body.message = ErrNotAllowed

\* the header is the entry, give or take trailing slashes
SameButSlashes(value, entry) == StripTrailingSlashes(value) = StripTrailingSlashes(entry)

\* C2: for every configured entry E, a request whose Origin header equals E,
\* with or without a trailing slash, is admitted; when E has no scheme, the
\* headers https://E and E are both admitted.
C2_ConfiguredEntryAdmitted ==
    \A r \in Gated :
        \A k \in 1..Len(ALLOWED_ORIGINS) :
            LET E == ALLOWED_ORIGINS[k]
            IN  ( /\ E # <<>>
                  /\ r.origin.present
                  /\ \/ SameButSlashes(r.origin.value, E)
                     \/ ~HasHttpScheme(E) /\ r.origin.value = <<"https://">> \o E )
                => r.gate = "allow"

\* C3: a request with no Origin header is admitted, whatever the allow-list.
C3_NoOriginAdmitted ==
    \A r \in Gated : ~r.origin.present => r.gate = "allow"

C3_Witness ==
    \E r \in Gated : ~r.origin.present /\ r.gate = "allow" /\ ALLOWED_ORIGINS = <<>>

\* C4: a denied request is answered 403 with the structured CORS error body,
\* once, and no route handler runs for it: no model call, no webhook call.
C4_DeniedIs403AndStops ==
    \A r \in Requests :
        r.gate = "deny" =>
            /\ r.pc = "done"
            /\ r.responses = 1
            /\ r.resp.status = 403
            /\ r.resp.body.keys = { "error", "message" }
            /\ r.resp.body.error = "CORS error"
            /\ r.resp.body.message \in { ErrOriginInvalid, ErrNotAllowed }
            /\ ~r.handlerRan
            /\ r.openaiCalls = 0
            /\ r.webhookCalls = 0

C4_Witness ==
    \E r \in Requests :
        r.gate = "deny" /\ r.route = "lead" /\ r.resp.body.message = ErrNotAllowed

---------------------------------------------------------------------------
(* Claims: the coercion and POST /chat (SpecChat) *)

Resolved == { r \in Requests : r.route = "chat" /\ r.outcome = "resolved" }

\* a {reply, chips} object: a string reply and an array of string chips
IsReplyObject(v) ==
    /\ IsString(Get(v, <<"reply">>))
    /\ IsArray(Get(v, <<"chips">>))
    /\ \A c \in Range(Elements(Get(v, <<"chips">>))) : IsString(c)

\* the chips of an object as the contract wants them: trimmed, the empty
\* ones dropped, the first six
ContractChips(v) ==
    LET strs == Elements(Get(v, <<"chips">>))
    IN  FirstN(SelectSeq([i \in 1..Len(strs) |-> Trim(strs[i].s)], NonEmpty), 6)

\* C5: for a text that holds one {reply, chips} object, alone or surrounded
\* by other text (text with braces included), the answer carries that
\* object's reply and its chips, trimmed, non-empty, at most six, and is not
\* the fallback.
C5_EmbeddedObjectExtracted ==
    \A r \in Resolved :
        (r.up.kind \in { "object", "wrapped" } /\ IsReplyObject(r.up.obj)) =>
            r.resp = Resp(200, ReplyBody(Trim(Get(r.up.obj, <<"reply">>).s),
                                         ContractChips(r.up.obj)))

\* a content that holds no JSON object: no string, or a text without a brace
HoldsNoObject(up) == ~up.content.isString \/ LB \notin Range(up.content.text)

\* C6: for a content that holds no parseable JSON object (the empty text, a
\* blank first line, a content that is no text) the answer is the fallback:
\* a non-empty reply, the trimmed first line or the placeholder, and the
\* default chips.
C6_FallbackReplyNonEmpty ==
    \A r \in Resolved :
        HoldsNoObject(r.up) =>
            /\ r.resp.status = 200
            /\ r.resp.body.reply # <<>>
            /\ r.resp.body.reply \in { Trim(FirstLine(r.up.content.text)), Placeholder }
            /\ r.resp.body.chips = defaultChips
            /\ defaultChips # <<>>

IsTrimmed(str) == str # <<>> /\ Head(str) \notin Whitespace /\ str[Len(str)] \notin Whitespace

\* C7: in every 200 answer of /chat, parsed or fallback, chips has at most
\* six entries, each a non-empty string without leading or trailing
\* whitespace.
C7_ChipsBoundedAndTrimmed ==
    \A r \in Requests :
        (r.route = "chat" /\ r.resp.status = 200) =>
            /\ Len(r.resp.body.chips) <= 6
            /\ \A i \in 1..Len(r.resp.body.chips) : IsTrimmed(r.resp.body.chips[i])

C7_Witness ==
    \E r \in Resolved :
        /\ r.resp.status = 200
        /\ r.up.kind = "object"
        /\ Len(Get(r.up.obj, <<"chips">>).items) > 6
        /\ PaddedChip \in Range(Elements(Get(r.up.obj, <<"chips">>)))
        /\ Len(r.resp.body.chips) = 6

\* C8: when the text parses to an object with a string reply and a chips
\* array, the reply answered is that reply trimmed, and it is not empty.
C8_ParsedReplyTrimmedNonEmpty ==
    \A r \in Resolved :
        (r.up.kind = "object" /\ r.resp.status = 200) =>
            /\ r.resp.body.reply = Trim(Get(r.up.obj, <<"reply">>).s)
            /\ r.resp.body.reply # <<>>

\* C9: whenever the model call succeeds the answer is 200 with a body of
\* shape {reply, chips}, whatever the text.
C9_ResolvedIs200 ==
    \A r \in Resolved :
        /\ r.resp.status = 200
        /\ r.resp.body.keys = { "reply", "chips" }

ChatAdmitted == { r \in Requests : r.route = "chat" /\ r.gate = "allow" }

\* C10 as stated: a body without turns, or whose turns is no sequence, is
\* answered 400 "turns required" with no model call; a body with a turns
\* sequence is not rejected.
C10_TurnsValidation ==
    \A r \in ChatAdmitted :
        /\ r.body.turns.k # "arr" =>
               /\ r.resp.status = 400
               /\ r.resp.body.error = "turns required"
               /\ r.openaiCalls = 0
        /\ r.body.turns.k = "arr" => r.resp.status # 400

\* C10 amended: a body without messages, or whose messages is no array, is
\* answered 400 "messages (array) required" with no model call; a body with
\* a messages array is not rejected, and the model is called once.
C10_MessagesValidation ==
    \A r \in ChatAdmitted :
        /\ r.body.messages.k # "arr" =>
               /\ r.pc = "done"
               /\ r.resp = Resp(400, ErrorBody("messages (array) required"))
               /\ r.openaiCalls = 0
        /\ r.body.messages.k = "arr" =>
               /\ r.resp.status # 400
               /\ r.openaiCalls = 1

C10_Witness ==
    \E r \in ChatAdmitted :
        /\ r.body.messages.k = "str"
        /\ r.body.turns.k = "arr"
        /\ r.resp.status = 400
        /\ r.openaiCalls = 0

---------------------------------------------------------------------------
(* Claims: what /chat sends upstream (SpecServe), upstream failure         *)
(* (SpecChat)                                                              *)

Min(a, b) == IF a <= b THEN a ELSE b

\* C11: for a chat request with an array of k caller turns, the message
\* list sent upstream is the system turn followed by the last min(k, 8)
\* caller turns, in order and unmodified; temperature is 0 and max_tokens
\* is 350 for every request.
C11_WindowForwarded ==
    \A r \in Requests :
        r.route = "chat" /\ r.gate = "allow" /\ r.body.messages.k = "arr" =>
            LET turns == Elements(r.body.messages)
                k == Len(turns)
                n == Min(k, 8)
            IN  /\ r.openaiCalls = 1
                /\ Len(r.sent.messages) = n + 1
                /\ r.sent.messages[1] = SystemTurn
                /\ \A j \in 1..n : r.sent.messages[1 + j] = turns[k - n + j]
                /\ r.sent.temperature = 0
                /\ r.sent.max_tokens = 350

C11_Witness ==
    \E r \in Requests :
        /\ r.route = "chat"
        /\ Len(r.body.messages.items) = 10
        /\ Len(r.sent.messages) = 9
        /\ r.sent.messages[2] = CallerTurn(3)
        /\ r.sent.messages[9] = CallerTurn(10)

\* C12: when the model call fails, /chat answers 500 with error chat_error
\* and a details string, and one model call was made for the request.
C12_UpstreamFailureIs500 ==
    \A r \in Requests :
        r.route = "chat" /\ r.outcome = "rejected" =>
            /\ r.pc = "done"
            /\ r.responses = 1
            /\ r.resp.status = 500
            /\ r.resp.body.keys = { "error", "details" }
            /\ r.resp.body.error = "chat_error"
            /\ r.resp.body.details = r.err
            /\ r.resp.body.details # ""
            /\ r.openaiCalls = 1

C12_Witness ==
    \E r \in Requests :
        /\ r.route = "chat"
        /\ r.outcome = "rejected"
        /\ r.err = "Error: timeout"
        /\ r.resp.status = 500

---------------------------------------------------------------------------
(* Claims: POST /lead (SpecServe) *)

LeadAdmitted == { r \in Requests : r.route = "lead" /\ r.gate = "allow" }

AbsentOrEmpty(v) == v.k = "undef" \/ (v.k = "str" /\ v.s = <<>>)

\* a field of a lead submission that is present and a non-empty string
ValidField(v) == v.k = "str" /\ v.s # <<>>

\* C13: a lead whose name or phone is absent or empty is answered 400
\* "name & phone required" and no webhook call is made, whether or not a
\* webhook target is configured.
C13_MissingFieldsIs400 ==
    \A r \in LeadAdmitted :
        AbsentOrEmpty(r.body.name) \/ AbsentOrEmpty(r.body.phone) =>
            /\ r.pc = "done"
            /\ r.resp.status = 400
            /\ r.resp.body.keys = { "error" }
            /\ r.resp.body.error = "name & phone required"
            /\ r.webhookCalls = 0

C13_Witness ==
    \E r \in LeadAdmitted :
        /\ LEAD_WEBHOOK_URL = <<>>
        /\ r.body.name = Str(<<"Asha">>)
        /\ r.body.phone = Str(<<>>)
        /\ r.resp.status = 400

\* C14: a lead with valid name and phone, received while no webhook target
\* is configured, is answered 500 lead_webhook_not_configured and no
\* webhook call is made.
C14_UnconfiguredIs500 ==
    \A r \in LeadAdmitted :
        LEAD_WEBHOOK_URL = <<>> /\ ValidField(r.body.name) /\ ValidField(r.body.phone) =>
            /\ r.pc = "done"
            /\ r.resp.status = 500
            /\ r.resp.body.keys = { "error" }
            /\ r.resp.body.error = "lead_webhook_not_configured"
            /\ r.webhookCalls = 0

C14_Witness ==
    \E r \in LeadAdmitted :
        /\ LEAD_WEBHOOK_URL = <<>>
        /\ r.body.name = Str(<<"Asha">>)
        /\ r.body.phone = Str(ExamplePhone)
        /\ r.resp.status = 500
        /\ r.webhookCalls = 0

LeadForwarded == { r \in LeadAdmitted : r.webhookCalls > 0 }

RECURSIVE DigitsInOrder(_, _)
\* out is inp without its non-digit characters, the digits in their order
DigitsInOrder(out, inp) ==
    IF inp = <<>> THEN out = <<>>
    ELSE IF Head(inp) \in { "0", "1", "2", "3", "4", "5", "6", "7", "8", "9" }
    THEN out # <<>> /\ Head(out) = Head(inp) /\ DigitsInOrder(Tail(out), Tail(inp))
    ELSE DigitsInOrder(out, Tail(inp))

\* C15: in every forwarded payload the phone is the submitted phone without
\* its non-digit characters, the digits in order; the name is unchanged;
\* firstMessage, conversation and timestamp, when absent, are "", [] and the
\* current time.
C15_PayloadNormalized ==
    \A r \in LeadForwarded :
        /\ r.body.phone.k \in { "str", "num" } => DigitsInOrder(r.payload.phone, r.body.phone.s)
        /\ r.payload.name = r.body.name
        /\ r.body.firstMessage.k = "undef" => r.payload.firstMessage = Str(<<>>)
        /\ r.body.conversation.k = "undef" => r.payload.conversation = Arr(<<>>)
        /\ r.body.timestamp.k = "undef" => r.payload.timestamp = NowText

C15_Witness ==
    \E r \in LeadForwarded :
        /\ r.body.phone = Str(ExamplePhone)
        /\ r.payload.phone = <<"9", "1", "9", "8", "7", "6", "5", "4", "3", "2", "1", "0">>
        /\ r.body.timestamp.k = "undef"
        /\ r.payload.timestamp = NowText
        /\ r.payload.firstMessage = Str(<<>>)

LeadFailureAnswered(r) ==
    r.outcome = "rejected" =>
        /\ r.resp.status = 500
        /\ r.resp.body.keys = { "error", "details" }
        /\ r.resp.body.error = "lead_forward_error"
        /\ r.resp.body.details = r.err
        /\ r.resp.body.details # ""

LeadSuccessAnswered(r, dataKey) ==
    r.outcome = "resolved" =>
        /\ r.resp.status = 200
        /\ r.resp.body.keys = { "success", "forwarded", dataKey }
        /\ r.resp.body.success
        /\ r.resp.body.forwarded
        /\ r.resp.body.data = IF r.data.k = "undef" \/ r.data = Str(<<>>) THEN Null ELSE r.data

---------------------------------------------------------------------------
(* Claims: requests handled concurrently (SpecPair, SpecPairFair) *)

\* C16: a /lead call makes at most one webhook request, and exactly one
\* when name and phone are valid and a target is configured; after a
\* failure the request is answered and the count stays one; two calls with
\* the same body each make their own request with the same payload.
C16_ForwardedOncePerCall ==
    /\ \A r \in LeadAdmitted :
        /\ r.webhookCalls <= 1
        /\ LEAD_WEBHOOK_URL # <<>> /\ ValidField(r.body.name) /\ ValidField(r.body.phone)
               => r.webhookCalls = 1
        /\ r.outcome = "rejected" => r.pc = "done" /\ r.webhookCalls = 1
    /\ \A i, j \in DOMAIN reqs :
        /\ i # j
        /\ reqs[i] \in LeadAdmitted /\ reqs[j] \in LeadAdmitted
        /\ reqs[i].body = reqs[j].body
        => /\ reqs[i].webhookCalls = reqs[j].webhookCalls
           /\ reqs[i].payload = reqs[j].payload

C16_Witness ==
    /\ reqs[1] \in LeadForwarded
    /\ reqs[2] \in LeadForwarded
    /\ reqs[1].body = reqs[2].body
    /\ reqs[1].outcome = "rejected"
    /\ reqs[2].outcome = "resolved"
    /\ reqs[1].webhookCalls = 1
    /\ reqs[2].webhookCalls = 1

Admitted == { r \in Requests : r.gate = "allow" }

\* what a request's handler is given: the body, and the result of its own
\* outbound call
OwnInputs(r) == <<r.route, r.body, r.outcome, r.up, r.err, r.data>>

\* what a request's handler produces: the outbound payload, the response
OwnOutputs(r) == <<r.openaiCalls, r.sent, r.webhookCalls, r.payload, r.pc, r.resp>>

SameInputsSameOutputs ==
    \A q, r \in Admitted :
        /\ q.route = r.route /\ q.body = r.body =>
               /\ q.sent = r.sent
               /\ q.payload = r.payload
        /\ OwnInputs(q) = OwnInputs(r) => OwnOutputs(q) = OwnOutputs(r)

AllowListUnchanged ==
    /\ ALLOWED_ORIGINS' = ALLOWED_ORIGINS
    /\ ALLOWED_HOSTS' = ALLOWED_HOSTS

\* C18: in every interleaving of two requests, a request's outbound payload
\* and its response are determined by its own body and its own outbound
\* call's result, whatever the other request is and however far it has
\* come; no step changes the raw allow-list or the normalized host set.
C18_RequestsIndependent == []SameInputsSameOutputs /\ [][AllowListUnchanged]_vars

C18_Witness ==
    /\ reqs[1] \in Admitted
    /\ reqs[2] \in Admitted
    /\ reqs[1].route = "chat"
    /\ reqs[1].origin # reqs[2].origin
    /\ OwnInputs(reqs[1]) = OwnInputs(reqs[2])
    /\ reqs[1].outcome = "resolved"
    /\ reqs[1].resp = reqs[2].resp
    /\ Len(reqs[2].sent.messages) = 3

AnsweredAtMostOnce ==
    \A r \in Requests :
        /\ r.responses <= 1
        /\ r.pc = "done" => r.responses = 1 /\ r.resp.status \in { 200, 400, 403, 500 }
        /\ r.pc # "done" => r.responses = 0

\* C19: every request received is eventually answered, given that its
\* outbound call completes, fails or times out; it is answered once, with
\* 200, 400, 403 or 500, also when the other request has failed.
C19_EveryRequestAnswered ==
    /\ []AnsweredAtMostOnce
    /\ (reqs[1].pc # "new") ~> (reqs[1].pc = "done" /\ reqs[1].responses = 1)
    /\ (reqs[2].pc # "new") ~> (reqs[2].pc = "done" /\ reqs[2].responses = 1)

C19_Witness ==
    /\ reqs[1].pc = "done"
    /\ reqs[1].outcome = "rejected"
    /\ reqs[1].resp.status = 500
    /\ reqs[1].responses = 1
    /\ reqs[2].pc = "done"
    /\ reqs[2].outcome = "resolved"
    /\ reqs[2].resp.status = 200
    /\ reqs[2].responses = 1

---------------------------------------------------------------------------
(* Claims: the logging variant (SpecLogging) *)

\* C20: in the logging variant a chat request with a message array leads to
\* one model call with the system turn and the last 8 turns, is answered
\* 200 with {reply, chips} when that call succeeds, and is never answered
\* 500 without the model having been called.
C20_LoggingValidChatCallsUpstream ==
    \A r \in ChatAdmitted :
        r.body.messages.k = "arr" =>
            /\ r.openaiCalls = 1
            /\ r.sent.messages = <<SystemTurn>> \o LastN(Elements(r.body.messages), 8)
            /\ r.outcome = "resolved" =>
                   r.resp.status = 200 /\ r.resp.body.keys = { "reply", "chips" }
            /\ ~(r.resp.status = 500 /\ r.openaiCalls = 0)

---------------------------------------------------------------------------
(* Claims: what is forwarded (SpecServe) *)

\* C21: every payload forwarded by /lead has a non-empty name and a
\* non-empty phone; a submission whose phone has no digit is not forwarded.
C21_ForwardedPhoneNonEmpty ==
    \A r \in LeadForwarded :
        /\ ValidField(r.payload.name)
        /\ r.payload.phone # <<>>

\* C22: every turn that /chat forwards upstream has a role among system,
\* user, assistant and a non-empty text content.
C22_ForwardedTurnsWellFormed ==
    \A r \in Requests :
        r.route = "chat" /\ r.openaiCalls > 0 =>
            \A j \in 1..Len(r.sent.messages) :
                LET turn == r.sent.messages[j]
                IN  /\ Get(turn, <<"role">>) \in
                           { Str(<<"system">>), Str(<<"user">>), Str(<<"assistant">>) }
                    /\ ValidField(Get(turn, <<"content">>))

====
